---- MODULE Spec2Model ----
(***************************************************************************)
(* A model of aesthetic_clip.py: the embedding store (the embeddings       *)
(* directory and the module-level index aesthetic_embeddings), the image   *)
(* embedding generator generate_imgs_embd, slerp, and the AestheticCLIP    *)
(* session object with its __call__.                                       *)
(*                                                                         *)
(* Conventions.                                                            *)
(*   - A Python string is a sequence of one-character strings.             *)
(*   - A Python optional is a tuple of length 0 (None) or 1 (a value).     *)
(*   - A float is a pair <<n, d>> read as n/d in lowest terms, d >= 0;     *)
(*     <<0,0>> is NaN and <<1,0>>, <<-1,0>> are +Inf, -Inf (IEEE 754).     *)
(*   - A vector is a sequence of floats.  Stored embeddings have one       *)
(*     coordinate on the embedding axis; slerp is exercised on rows of two *)
(*     coordinates.                                                        *)
(***************************************************************************)
EXTENDS Integers, Sequences, FiniteSets, TLC

VARIABLES
    files,                    \* the embeddings directory: file name -> saved tensor
    aesthetic_embeddings,     \* module global: key -> optional path
    choices,                  \* the choices shown by the "Embedding" dropdown
    aesthetic_clip_model,     \* module global: optional base encoder
    gen,                      \* what the last generate_imgs_embd call did
    skip,                     \* AestheticCLIP.skip
    aesthetic_steps,          \* AestheticCLIP.aesthetic_steps
    aesthetic_weight,         \* AestheticCLIP.aesthetic_weight (hundredths)
    aesthetic_lr,             \* AestheticCLIP.aesthetic_lr (units of 1e-4)
    self_slerp,               \* AestheticCLIP.slerp
    aesthetic_text_negative,  \* AestheticCLIP.aesthetic_text_negative (its truth value)
    aesthetic_slerp_angle,    \* AestheticCLIP.aesthetic_slerp_angle (hundredths)
    aesthetic_imgs_text,      \* AestheticCLIP.aesthetic_imgs_text
    image_embs_name,          \* AestheticCLIP.image_embs_name (optional string)
    image_embs,               \* AestheticCLIP.image_embs (optional tensor)
    set_call,                 \* what the last set_aesthetic_params call did
    call,                     \* what the last __call__ did
    low, high, val, res       \* the arguments and the result of a slerp evaluation

storeVars   == <<files, aesthetic_embeddings, choices, gen>>
configVars  == <<aesthetic_steps, aesthetic_weight, aesthetic_lr, self_slerp,
                 aesthetic_text_negative, aesthetic_slerp_angle, aesthetic_imgs_text>>
sessionVars == <<skip, configVars, image_embs_name, image_embs, set_call>>
slerpVars   == <<low, high, val, res>>
vars == <<storeVars, aesthetic_clip_model, sessionVars, call, slerpVars>>

----------------------------------------------------------------------------
(* Bounds *)
MaxImages == 3      \* images in a folder
MaxBatchSize == 2   \* batch_size of generate_imgs_embd
MaxSteps == 2       \* aesthetic_steps
MaxBatch == 2       \* prompts in one __call__
MaxChunks == 2      \* 77-token chunks of the host's conditioning
MaxT == 2           \* largest interpolation parameter tried on slerp
MaxRows == 2        \* rows of a slerp argument

(* Program constants. *)
ChunkLen == 77
PromptTokens == 75

----------------------------------------------------------------------------
(* Python values *)
None == <<>>
Some(x) == <<x>>

Min(a, b) == IF a < b THEN a ELSE b
Max(a, b) == IF a < b THEN b ELSE a
Abs(n) == IF n < 0 THEN -n ELSE n
Sign(n) == IF n < 0 THEN -1 ELSE IF n > 0 THEN 1 ELSE 0

(* Strings *)
Ord(c) ==
    CASE c = "." -> 46 [] c = "A" -> 65 [] c = "N" -> 78 [] c = "a" -> 97
      [] c = "b" -> 98 [] c = "e" -> 101 [] c = "n" -> 110 [] c = "o" -> 111
      [] c = "p" -> 112 [] c = "t" -> 116

RECURSIVE StrLess(_, _)
StrLess(s, t) ==
    IF t = <<>> THEN FALSE
    ELSE IF s = <<>> THEN TRUE
    ELSE IF Ord(Head(s)) # Ord(Head(t)) THEN Ord(Head(s)) < Ord(Head(t))
    ELSE StrLess(Tail(s), Tail(t))

endswith(s, suffix) ==
    /\ Len(s) >= Len(suffix)
    /\ SubSeq(s, Len(s) - Len(suffix) + 1, Len(s)) = suffix

RECURSIVE replace(_, _, _)
replace(s, old, new) ==
    IF Len(s) < Len(old) THEN s
    ELSE IF SubSeq(s, 1, Len(old)) = old
         THEN new \o replace(SubSeq(s, Len(old) + 1, Len(s)), old, new)
         ELSE <<Head(s)>> \o replace(Tail(s), old, new)

RECURSIVE sorted(_)
sorted(S) ==
    IF S = {} THEN <<>>
    ELSE LET m == CHOOSE x \in S : \A y \in S \ {x} : StrLess(x, y)
         IN  <<m>> \o sorted(S \ {m})

PT == <<".", "p", "t">>
NoneKey == <<"N", "o", "n", "e">>

(* Floats *)
RECURSIVE Gcd(_, _)
Gcd(a, b) == IF b = 0 THEN a ELSE Gcd(b, a % b)

NaN == <<0, 0>>
Num(n) == <<n, 1>>
IsNaN(a) == a = NaN
Canon(n, d) ==
    IF d = 0 THEN <<Sign(n), 0>>
    ELSE LET g == Gcd(Abs(n), Abs(d))
             s == IF d < 0 THEN -1 ELSE 1
         IN  <<(s * n) \div g, (s * d) \div g>>
FAdd(a, b) ==
    IF IsNaN(a) \/ IsNaN(b) THEN NaN
    ELSE IF a[2] = 0 /\ b[2] = 0 THEN (IF a[1] = b[1] THEN a ELSE NaN)
    ELSE Canon(a[1] * b[2] + b[1] * a[2], a[2] * b[2])
FMul(a, b) == IF IsNaN(a) \/ IsNaN(b) THEN NaN ELSE Canon(a[1] * b[1], a[2] * b[2])
FDiv(a, b) == IF IsNaN(a) \/ IsNaN(b) THEN NaN ELSE Canon(a[1] * b[2], a[2] * b[1])
Isqrt(n) == CHOOSE r \in 0..n : r * r = n
FSqrt(a) == IF a[2] = 0 THEN a ELSE <<Isqrt(a[1]), Isqrt(a[2])>>

(* Vectors *)
RECURSIVE FSum(_)
FSum(xs) == IF xs = <<>> THEN Num(0) ELSE FAdd(Head(xs), FSum(Tail(xs)))
norm(v) == FSqrt(FSum([i \in 1..Len(v) |-> FMul(v[i], v[i])]))
VDiv(v, a) == [i \in 1..Len(v) |-> FDiv(v[i], a)]
VScale(a, v) == [i \in 1..Len(v) |-> FMul(a, v[i])]
VAdd(v, w) == [i \in 1..Len(v) |-> FAdd(v[i], w[i])]
dot(v, w) == FSum([i \in 1..Len(v) |-> FMul(v[i], w[i])])
\* torch.cat(embs, dim=0).mean(dim=0, keepdim=True) over a non-empty list of rows
mean(rows) ==
    [i \in 1..Len(rows[1]) |->
        FDiv(FSum([r \in 1..Len(rows) |-> rows[r][i]]), Num(Len(rows)))]

RECURSIVE cat(_)
cat(lists) == IF lists = <<>> THEN <<>> ELSE Head(lists) \o cat(Tail(lists))

----------------------------------------------------------------------------
(* The embedding store *)

\* The dicts the comprehension of update_aesthetic_embeddings can build from the
\* directory fs: one entry per key, and where several files give the same key
\* the one os.listdir returns last, which is any of them.
RECURSIVE dicts_over(_, _)
dicts_over(keys, listed) ==
    IF keys = {} THEN {<<>>}
    ELSE LET k == CHOOSE x \in keys : TRUE
         IN  {(k :> f) @@ d : f \in {g \in listed : replace(g, PT, <<>>) = k},
                              d \in dicts_over(keys \ {k}, listed)}

listdir_dicts(fs) ==
    LET listed == {f \in DOMAIN fs : endswith(f, PT)}
    IN  dicts_over({replace(f, PT, <<>>) : f \in listed}, listed)

\* update_aesthetic_embeddings, given the dict d of its first statement: the
\* new value of the global and whether the second statement raised TypeError
\* (a key "None" among the files is a repeated keyword argument).
update_aesthetic_embeddings(d) ==
    LET paths == [k \in DOMAIN d |-> Some(d[k])]
    IN  IF NoneKey \in DOMAIN d
        THEN [index |-> paths, raised |-> TRUE]
        ELSE [index |-> (NoneKey :> None) @@ paths, raised |-> FALSE]

\* The directories the program may find when it is imported.
InitialDirs == {<<>>, (<<"a">> \o PT) :> <<Num(1)>>}

\* sorted(aesthetic_embeddings.keys()), the dropdown's choices
dropdown_choices(index) == sorted(DOMAIN index)

\* The refresh button: update_aesthetic_embeddings, then the choices again.
RefreshButton ==
    /\ \E d \in listdir_dicts(files) :
          LET u == update_aesthetic_embeddings(d)
          IN  /\ aesthetic_embeddings' = u.index
              /\ choices' = IF u.raised THEN choices ELSE dropdown_choices(u.index)
    /\ UNCHANGED <<files, gen, aesthetic_clip_model, sessionVars, call, slerpVars>>

----------------------------------------------------------------------------
(* The base encoder *)
ClipName == "openai/clip-vit-large-patch14"
SdPaths == {ClipName, "other"}

from_pretrained == [name_or_path |-> ClipName, params |-> 0, device |-> "cpu"]

\* aesthetic_clip(): the global after the call, which is also what it returns.
\* sd_path is the name_or_path of the host's text transformer.
aesthetic_clip(sd_path) ==
    IF aesthetic_clip_model = None \/ aesthetic_clip_model[1].name_or_path # sd_path
    THEN from_pretrained
    ELSE aesthetic_clip_model[1]

----------------------------------------------------------------------------
(* Image embedding generation *)
ImageFeatures == {<<Num(1)>>, <<Num(-2)>>}

RECURSIVE iter_to_batched(_, _)
iter_to_batched(iterable, n) ==
    LET chunk == SubSeq(iterable, 1, Min(n, Len(iterable)))
    IN  IF chunk = <<>> THEN <<>>
        ELSE <<chunk>> \o iter_to_batched(SubSeq(iterable, Len(chunk) + 1, Len(iterable)), n)

NoGen == [name |-> <<>>, images |-> <<>>, batch_size |-> 1, completed |-> 0,
          status |-> "none", saved |-> None]

\* generate_imgs_embd(name, folder, batch_size).  images are the features of the
\* folder's valid images in directory order; intr is the number of batches
\* after which shared.state.interrupted first reads true (the number of
\* batches or more: never).
generate_imgs_embd(name, images, batch_size, intr, sd_path) ==
    LET model == aesthetic_clip(sd_path)
        batches == iter_to_batched(images, batch_size)
        completed == Min(intr, Len(batches))
        embs == SubSeq(batches, 1, completed)
        path == name \o PT
        call_ == [name |-> name, images |-> images,
                  batch_size |-> batch_size, completed |-> completed]
    IN  IF embs = <<>>
        THEN \* torch.cat of an empty list raises RuntimeError
             /\ aesthetic_clip_model' = Some([model EXCEPT !.device = "cuda"])
             /\ gen' = call_ @@ [status |-> "RuntimeError", saved |-> None]
             /\ UNCHANGED <<files, aesthetic_embeddings>>
        ELSE LET saved == mean(cat(embs))
             IN  /\ files' = (path :> saved) @@ files
                 /\ aesthetic_clip_model' = Some([model EXCEPT !.device = "cpu"])
                 /\ \E d \in listdir_dicts(files') :
                       LET u == update_aesthetic_embeddings(d)
                       IN  /\ aesthetic_embeddings' = u.index
                           /\ gen' = call_ @@ [status |-> IF u.raised THEN "TypeError" ELSE "done",
                                               saved |-> Some(saved)]

Folders == UNION {[1..n -> ImageFeatures] : n \in 0..MaxImages}

Generate(names, folders, batch_sizes, intrs) ==
    /\ \E name \in names, images \in folders, batch_size \in batch_sizes,
          intr \in intrs, sd_path \in SdPaths :
          generate_imgs_embd(name, images, batch_size, intr, sd_path)
    /\ UNCHANGED <<choices, sessionVars, call, slerpVars>>

----------------------------------------------------------------------------
(* slerp *)

\* torch.acos and torch.sin on the arguments that are exact in floating point
\* and in the model alike; angles are counted in quarter turns.  (At an angle of
\* two quarter turns the float sine is not zero, so that angle is left out.)
acos(x) == CASE x = Num(1) -> 0 [] x = Num(0) -> 1
sin(q) == Num(CASE q % 4 = 0 -> 0 [] q % 4 = 1 -> 1 [] q % 4 = 2 -> 0 [] q % 4 = 3 -> -1)

\* slerp(low, high, val): low and high are lists of rows, val an integer.
slerp(low_, high_, val_) ==
    LET rows == 1..Len(low_)
        low_norm == [i \in rows |-> VDiv(low_[i], norm(low_[i]))]
        high_norm == [i \in rows |-> VDiv(high_[i], norm(high_[i]))]
        omega == [i \in rows |-> acos(dot(low_norm[i], high_norm[i]))]
        so == [i \in rows |-> sin(omega[i])]
    IN  [i \in rows |->
            VAdd(VScale(FDiv(sin((1 - val_) * omega[i]), so[i]), low_[i]),
                 VScale(FDiv(sin(val_ * omega[i]), so[i]), high_[i]))]

\* the sine term of each row, as slerp computes it
slerp_so(low_, high_) ==
    [i \in 1..Len(low_) |->
        sin(acos(dot(VDiv(low_[i], norm(low_[i])), VDiv(high_[i], norm(high_[i])))))]

SlerpVectors == {<<Num(1), Num(0)>>, <<Num(0), Num(1)>>, <<Num(2), Num(0)>>, <<Num(0), Num(2)>>}

EvalSlerp ==
    /\ res = None
    /\ res' = Some(slerp(low, high, val))
    /\ UNCHANGED <<low, high, val, storeVars, aesthetic_clip_model, sessionVars, call>>

\* a caller's next evaluation, on other arguments
NextSlerpArguments ==
    /\ res # None
    /\ \E n \in 1..MaxRows :
          /\ low' \in [1..n -> SlerpVectors]
          /\ high' \in [1..n -> SlerpVectors]
    /\ val' \in 0..MaxT
    /\ res' = None
    /\ UNCHANGED <<storeVars, aesthetic_clip_model, sessionVars, call>>

----------------------------------------------------------------------------
(* The session: AestheticCLIP *)

NoSetCall == [called |-> FALSE, arg |-> None, loaded |-> FALSE, raised |-> "no",
              recorded |-> FALSE]

NoCall == [outcome |-> "none", error |-> "no", value |-> <<>>, z_shape |-> <<>>,
           shape |-> None, cloned |-> FALSE, released |-> FALSE,
           base_reused |-> FALSE, clone_start |-> 0, optimizer_steps |-> 0]

\* load_image_embs without the comparison with the name held
load_image_embs_always(arg) ==
    LET sentinel == arg = None \/ Len(arg[1]) = 0 \/ arg[1] = NoneKey
    IN  IF sentinel
        THEN [name |-> None, embs |-> image_embs, loaded |-> FALSE, raised |-> "no"]
        ELSE IF arg[1] \notin DOMAIN aesthetic_embeddings
        THEN [name |-> arg, embs |-> image_embs, loaded |-> FALSE, raised |-> "KeyError"]
        ELSE LET t == files[aesthetic_embeddings[arg[1]][1]]
             IN  [name |-> arg, embs |-> Some(VDiv(t, norm(t))), loaded |-> TRUE,
                  raised |-> "no"]

\* load_image_embs(image_embs_name): the session's name and vector after the
\* call, whether torch.load was called, and the exception raised if any.
load_image_embs(arg) ==
    LET sentinel == arg = None \/ Len(arg[1]) = 0 \/ arg[1] = NoneKey
    IN  IF sentinel
        THEN [name |-> None, embs |-> image_embs, loaded |-> FALSE, raised |-> "no"]
        ELSE IF image_embs_name # arg
        THEN IF arg[1] \notin DOMAIN aesthetic_embeddings
             THEN [name |-> arg, embs |-> image_embs, loaded |-> FALSE, raised |-> "KeyError"]
             ELSE LET path == aesthetic_embeddings[arg[1]]
                  IN  IF path = None \/ path[1] \notin DOMAIN files
                      THEN [name |-> arg, embs |-> image_embs, loaded |-> TRUE,
                            raised |-> "FileNotFoundError"]
                      ELSE LET t == files[path[1]]
                           IN  [name |-> arg, embs |-> Some(VDiv(t, norm(t))),
                                loaded |-> TRUE, raised |-> "no"]
        ELSE [name |-> image_embs_name, embs |-> image_embs, loaded |-> FALSE, raised |-> "no"]

set_aesthetic_params(lr, weight, steps, name, slerp_flag, imgs_text, slerp_angle, text_negative) ==
    LET r == load_image_embs(name)
    IN  /\ aesthetic_imgs_text' = imgs_text
        /\ aesthetic_slerp_angle' = slerp_angle
        /\ aesthetic_text_negative' = text_negative
        /\ self_slerp' = slerp_flag
        /\ aesthetic_lr' = lr
        /\ aesthetic_weight' = weight
        /\ aesthetic_steps' = steps
        /\ image_embs_name' = r.name
        /\ image_embs' = r.embs
        \* p.extra_generation_params is updated when no exception was raised
        \* and an embedding is configured
        /\ set_call' = [called |-> TRUE, arg |-> name, loaded |-> r.loaded,
                        raised |-> r.raised,
                        recorded |-> (r.raised = "no" /\ r.name # None)]
        /\ call' = NoCall
        /\ UNCHANGED <<skip, storeVars, aesthetic_clip_model, slerpVars>>

set_skip(b) ==
    /\ skip' = b
    /\ call' = NoCall
    /\ UNCHANGED <<configVars, image_embs_name, image_embs, set_call, storeVars,
                   aesthetic_clip_model, slerpVars>>

----------------------------------------------------------------------------
(* __call__ *)

\* the condition of __call__ without its test of skip
optimizes_ignoring_skip ==
    /\ aesthetic_steps # 0
    /\ aesthetic_lr # 0
    /\ aesthetic_weight # 0
    /\ image_embs_name # None

\* the condition under which __call__ optimizes
optimizes ==
    /\ ~skip
    /\ aesthetic_steps # 0
    /\ aesthetic_lr # 0
    /\ aesthetic_weight # 0
    /\ image_embs_name # None

\* the base encoder itself in place of a copy
no_copy(m) == [is_base |-> TRUE, params |-> m.params]

\* copy.deepcopy(aesthetic_clip()): a new object with the base's parameters
deepcopy(m) == [is_base |-> FALSE, params |-> m.params]

\* Shapes are <<batch, sequence>>; the embedding axis is the same everywhere.
\* The rows of remade_batch_tokens hold 75 tokens per chunk, or 77 with the old
\* emphasis implementation, which knows one chunk only.
token_len(k, old_emphasis) ==
    IF old_emphasis THEN ChunkLen ELSE 1 + Min(PromptTokens * k, PromptTokens) + 1

\* t[lo:hi], a slice of the first axis
slice(shape, lo, hi) == <<Max(0, Min(shape[1], hi) - Min(shape[1], lo)), shape[2]>>

RECURSIVE SumSeq(_)
SumSeq(xs) == IF xs = <<>> THEN 0 ELSE Head(xs) + SumSeq(Tail(xs))

\* torch.concat(shapes, 1): the sizes must agree on every other axis
concat1(shapes) ==
    IF \A i \in 1..Len(shapes) : shapes[i][1] = shapes[1][1]
    THEN Some(<<shapes[1][1], SumSeq([i \in 1..Len(shapes) |-> shapes[i][2]])>>)
    ELSE None

\* zn = torch.concat([zn[77 * i:77 * (i + 1)] for i in range(max(z.shape[1] // 77, 1))], 1)
reassemble(zn_shape, z_shape) ==
    LET n == Max(z_shape[2] \div ChunkLen, 1)
    IN  concat1([j \in 1..n |-> slice(zn_shape, ChunkLen * (j - 1), ChunkLen * j)])

\* the shape of an elementwise operation on two tensors, by broadcasting
broadcast(a, b) ==
    IF \A i \in 1..2 : a[i] = b[i] \/ a[i] = 1 \/ b[i] = 1
    THEN Some([i \in 1..2 |-> Max(a[i], b[i])])
    ELSE None

\* __call__(remade_batch_tokens, multipliers) on batch prompts whose conditioning
\* spans k chunks.  fails_at = i > 0 makes the i-th forward pass of the encoder in
\* this call raise (out of memory, say); sd_path is the host's transformer name.
AestheticCLIP_call(batch, k, old_emphasis, stop_at_last_layers, fails_at, sd_path) ==
    LET z_shape == <<batch, ChunkLen * k>>
        this == [NoCall EXCEPT !.z_shape = z_shape]
    IN
    IF ~optimizes
    THEN /\ call' = [this EXCEPT !.outcome = "returned", !.value = <<"z">>,
                                 !.shape = Some(z_shape)]
         /\ UNCHANGED aesthetic_clip_model
    ELSE
    LET tokens == <<batch, token_len(k, old_emphasis)>>
        base == aesthetic_clip(sd_path)
        model == deepcopy(base)
        rot == IF Len(aesthetic_imgs_text) > 0 THEN 1 ELSE 0
        passes == rot + aesthetic_steps + 1
        \* where the call raises before the clone is released, and the
        \* optimizer steps taken by then
        error == IF rot = 1 /\ fails_at = 1 THEN "rotation forward"
                 ELSE IF image_embs = None THEN "image_embs is None"
                 ELSE IF fails_at \in (rot + 1)..(rot + aesthetic_steps) THEN "step forward"
                 ELSE IF fails_at = passes THEN "final forward"
                 ELSE "no"
        taken == CASE error = "step forward" -> fails_at - rot - 1
                   [] error \in {"final forward", "no"} -> aesthetic_steps
                   [] OTHER -> 0
        trained == [model EXCEPT !.params = model.params + taken]
        seen == [this EXCEPT !.cloned = TRUE, !.clone_start = model.params,
                             !.optimizer_steps = taken,
                             !.base_reused = (aesthetic_clip_model = Some(base))]
        zn == reassemble(tokens, z_shape)
        out == IF zn = None THEN None ELSE broadcast(z_shape, zn[1])
        hidden == IF stop_at_last_layers > 1 THEN "final_layer_norm(hidden_states)"
                  ELSE "last_hidden_state"
    IN  /\ aesthetic_clip_model' =
              Some(IF trained.is_base THEN [base EXCEPT !.params = trained.params] ELSE base)
        /\ call' =
              IF error # "no"
              THEN [seen EXCEPT !.outcome = "raised", !.error = error]
              ELSE IF zn = None
              THEN [seen EXCEPT !.outcome = "raised", !.error = "concat", !.released = TRUE]
              ELSE IF out = None
              THEN [seen EXCEPT !.outcome = "raised", !.error = "blend", !.released = TRUE]
              ELSE [seen EXCEPT !.outcome = "returned", !.released = TRUE,
                                !.shape = out,
                                !.value = <<IF self_slerp THEN "slerp" ELSE "lerp", "z", hidden>>]

Call ==
    /\ \E batch \in 1..MaxBatch, k \in 1..MaxChunks, old_emphasis \in BOOLEAN,
          stop_at_last_layers \in 1..2, fails_at \in 0..(MaxSteps + 2), sd_path \in SdPaths :
          /\ old_emphasis => k = 1
          /\ AestheticCLIP_call(batch, k, old_emphasis, stop_at_last_layers, fails_at, sd_path)
    /\ UNCHANGED <<storeVars, sessionVars, slerpVars>>

----------------------------------------------------------------------------
(* Specifications *)

Init ==
    /\ files \in InitialDirs
    /\ \E d \in listdir_dicts(files) :
          aesthetic_embeddings = update_aesthetic_embeddings(d).index
    /\ choices = dropdown_choices(aesthetic_embeddings)
    /\ aesthetic_clip_model = None
    /\ gen = NoGen
    /\ skip = FALSE
    /\ aesthetic_steps = 0
    /\ aesthetic_weight = 0
    /\ aesthetic_lr = 0
    /\ self_slerp = FALSE
    /\ aesthetic_text_negative = FALSE
    /\ aesthetic_slerp_angle = 0
    /\ aesthetic_imgs_text = <<>>
    /\ image_embs_name = None
    /\ image_embs = None
    /\ set_call = NoSetCall
    /\ call = NoCall
    /\ low = <<<<Num(1), Num(0)>>>>
    /\ high = <<<<Num(0), Num(1)>>>>
    /\ val = 0
    /\ res = None

Names == {<<"a">>, <<"b">>}
\* aesthetic_imgs_text, aesthetic_text_negative, aesthetic_slerp
Styles == {<<<<>>, FALSE, FALSE>>, <<<<"t">>, TRUE, TRUE>>}

\* The session under every configuration, with prompts applied.
Configure ==
    \E lr \in 0..1, weight \in {0, 50}, steps \in 0..MaxSteps,
       name \in {None} \cup {Some(n) : n \in Names},
       style \in Styles :
       set_aesthetic_params(lr, weight, steps, name, style[3], style[1], 15, style[2])

SetSkip == \E b \in BOOLEAN : set_skip(b)

Next == Configure \/ SetSkip \/ Call

Spec == Init /\ [][Next]_vars

\* The session's embedding across reconfigurations and generations.
NameArguments == {None, Some(<<>>), Some(NoneKey)} \cup {Some(n) : n \in Names}
OneImageFolders == {f \in Folders : Len(f) = 1}

ConfigureName ==
    \E name \in NameArguments :
       set_aesthetic_params(1, 50, 1, name, FALSE, <<>>, 15, FALSE)

GenerateNamed == Generate(Names, OneImageFolders, {1}, {1})

NextSession == ConfigureName \/ GenerateNamed

SpecSession == Init /\ [][NextSession]_vars

\* Generation from every folder, under one name.
GenerateFolder == Generate({<<"a">>}, Folders, 1..MaxBatchSize, 0..MaxImages)

NextGen == GenerateFolder

SpecGen == Init /\ [][NextGen]_vars

\* The store under several names.
StoreNames == {<<"a">>, <<"A">>, <<"a">> \o PT, NoneKey}

GenerateStored == Generate(StoreNames, OneImageFolders, {1}, {1})

NextStore == GenerateStored \/ RefreshButton

SpecStore == Init /\ [][NextStore]_vars

\* slerp on its own
NextSlerp == EvalSlerp \/ NextSlerpArguments

SpecSlerp == Init /\ [][NextSlerp]_vars

----------------------------------------------------------------------------
(* Properties *)

\* C1: whenever skip is set, or steps, learning rate or weight is 0, or no
\* embedding is configured, __call__ returns the host's conditioning z itself,
\* with its shape, having made no clone and taken no optimizer step.
NoOpReturnsBaseline ==
    (/\ call.outcome # "none"
     /\ \/ skip
        \/ aesthetic_steps = 0
        \/ aesthetic_lr = 0
        \/ aesthetic_weight = 0
        \/ image_embs_name = None)
    => /\ call.outcome = "returned"
       /\ call.value = <<"z">>
       /\ call.shape = Some(call.z_shape)
       /\ ~call.cloned
       /\ call.optimizer_steps = 0

\* a call skipped by the flag alone, under a configuration that would optimize
SkippedUnderFullConfiguration ==
    /\ call.outcome = "returned"
    /\ skip
    /\ aesthetic_steps # 0 /\ aesthetic_lr # 0 /\ aesthetic_weight # 0
    /\ image_embs_name # None

\* C2: the base encoder always holds the pretrained parameters, and every
\* clone a call optimizes starts from them, also when the base was already
\* used by an earlier call.
BaseEncoderNeverOptimized ==
    /\ aesthetic_clip_model # None => aesthetic_clip_model[1].params = from_pretrained.params
    /\ call.cloned => call.clone_start = from_pretrained.params

\* a call that took optimizer steps on a clone of a base an earlier call loaded
OptimizedOnReusedBase ==
    /\ call.cloned
    /\ call.base_reused
    /\ call.optimizer_steps = aesthetic_steps
    /\ call.optimizer_steps > 0
    /\ call.outcome = "returned"

\* C3: a generation interrupted at a batch boundary, the first included, ends
\* without an exception and saves the mean of the images of the batches
\* completed by then.
InterruptedGenerationSavesPartialMean ==
    (/\ gen.status # "none"
     /\ gen.completed < Len(iter_to_batched(gen.images, gen.batch_size)))
    => /\ gen.status = "done"
       /\ gen.saved = Some(mean(SubSeq(gen.images, 1, gen.completed * gen.batch_size)))
       /\ files[gen.name \o PT] = gen.saved[1]

\* C4: once the optimization has run, __call__ returns a tensor of the shape
\* of the host's conditioning, for every batch size and number of chunks.
AdjustedConditioningKeepsShape ==
    call.released => /\ call.outcome = "returned"
                     /\ call.shape = Some(call.z_shape)

\* C5: set_aesthetic_params calls torch.load only for a name that is not a
\* sentinel and differs from the name the session holds; given the name it
\* holds, it loads nothing and keeps the vector.
LoadOnlyOnNameChange ==
    [][ConfigureName =>
         LET arg == set_call'.arg
         IN  /\ set_call'.loaded =>
                  /\ arg # None
                  /\ Len(arg[1]) > 0
                  /\ arg[1] # NoneKey
                  /\ arg # image_embs_name
             /\ (arg # None /\ arg = image_embs_name) =>
                  /\ ~set_call'.loaded
                  /\ image_embs' = image_embs
                  /\ image_embs_name' = image_embs_name]_vars

\* the name held was configured again: nothing loaded, the vector kept
SameNameConfiguredAgain ==
    /\ set_call.called
    /\ set_call.arg # None
    /\ set_call.arg = image_embs_name
    /\ set_call.raised = "no"
    /\ ~set_call.loaded
    /\ image_embs # None

\* C6: a generation that completes leaves the index with the sentinel and
\* with name, resolving to the vector just saved, and changes no other
\* entry of the index or file of the store.
GenerateRegistersName ==
    [][(GenerateStored /\ gen'.status = "done") =>
         LET name == gen'.name
             index == aesthetic_embeddings'
         IN  /\ NoneKey \in DOMAIN index
             /\ index[NoneKey] = None
             /\ name \in DOMAIN index
             /\ index[name] # None
             /\ files'[index[name][1]] = gen'.saved[1]
             /\ \A k \in (DOMAIN index \cup DOMAIN aesthetic_embeddings) \ {name} :
                   /\ k \in DOMAIN index
                   /\ k \in DOMAIN aesthetic_embeddings
                   /\ index[k] = aesthetic_embeddings[k]
             /\ \A f \in (DOMAIN files \cup DOMAIN files') \ {name \o PT} :
                   /\ f \in DOMAIN files
                   /\ f \in DOMAIN files'
                   /\ files'[f] = files[f]]_vars

\* C7: the dropdown lists the sentinel first and the other names after it in
\* increasing order.
NoneListedFirst ==
    /\ choices[1] = NoneKey
    /\ \A i, j \in 2..Len(choices) : i < j => StrLess(choices[i], choices[j])

\* C8: every call that cloned the encoder released the clone before it
\* returned or raised.
CloneAlwaysReleased == call.cloned => call.released

\* C9: on every row whose sine term is zero slerp returns the linear
\* interpolation, and slerp(a, a, t) is a.
SlerpFallsBackToLerp ==
    res # None =>
        /\ \A i \in 1..Len(low) :
              slerp_so(low, high)[i] = Num(0) =>
                  res[1][i] = VAdd(VScale(Num(1 - val), low[i]), VScale(Num(val), high[i]))
        /\ low = high => res[1] = low

\* C10: whenever the session holds a name, it holds the normalized vector
\* stored under that name now.
SessionVectorMatchesStoredName ==
    image_embs_name # None =>
        /\ image_embs_name[1] \in DOMAIN aesthetic_embeddings
        /\ aesthetic_embeddings[image_embs_name[1]] # None
        /\ aesthetic_embeddings[image_embs_name[1]][1] \in DOMAIN files
        /\ LET t == files[aesthetic_embeddings[image_embs_name[1]][1]]
           IN  image_embs = Some(VDiv(t, norm(t)))

====
